---- MODULE Spec2Model ----
(***************************************************************************)
(* Model of the image-composition and background-selection pipeline of    *)
(* the Marketplace Listing Assistant (src/mla/image_processing.py and     *)
(* src/mla/backend.py).                                                    *)
(*                                                                         *)
(* Units: offsets (vof, hof) are carried in tenths, scale in hundredths,   *)
(* colour distances in hundredths of a unit.  Python's float arithmetic is *)
(* modelled by exact rational arithmetic followed by int() truncation; the *)
(* places where the IEEE double result of the source falls one short of    *)
(* the exact value are listed in DoubleShort / ComplementShort.            *)
(***************************************************************************)
EXTENDS Integers, Sequences, FiniteSets, TLC

VARIABLES
    \* ImageProcessor
    canvas_width_v, canvas_height_v, canvas_width_h, canvas_height_h,
    _dominant_color_cache,  \* insertion-ordered list of [key, color]
    _cache_lock,            \* the thread inside a "with self._cache_lock", or None
    \* threads running compute_dominant_color: their frames, the number of
    \* colour computations done per key since its last eviction, calls made
    cdc, computed, cdc_calls,
    \* Backend
    config_data,            \* the canvas entries of the configuration
    projects,               \* list of ProjectData
    use_solid_bg, backgrounds, progress_callback,
    jobs,                   \* frames of _process_project_images_worker on the pool
    submitted,              \* number of jobs submitted to the executor
    \* the caller's side: cancel flags closed over by the progress callbacks,
    \* the progress calls each job has made, the last finished API call, and
    \* the number of API calls made
    cancel_requested, events, last, ops,
    \* a pure function under study: its arguments and its result
    call, ret

canvasVars ==
    <<canvas_width_v, canvas_height_v, canvas_width_h, canvas_height_h, config_data>>
cacheVars == <<_dominant_color_cache, _cache_lock, cdc, computed, cdc_calls>>
backendVars == <<projects, use_solid_bg, backgrounds, progress_callback, jobs, submitted>>
callerVars == <<cancel_requested, events, last, ops>>
pureVars == <<call, ret>>
vars == <<canvasVars, cacheVars, backendVars, callerVars, pureVars>>

None == "None"

(***************************************************************************)
(* constants.py                                                            *)
(***************************************************************************)
DEFAULT_CANVAS_WIDTH_V == 600
DEFAULT_CANVAS_HEIGHT_V == 800
DEFAULT_CANVAS_WIDTH_H == 800
DEFAULT_CANVAS_HEIGHT_H == 600
DEFAULT_VERTICAL_OFFSET == 0
DEFAULT_HORIZONTAL_OFFSET == 0
DEFAULT_SIZE_SCALE == 85

(***************************************************************************)
(* Arithmetic helpers                                                      *)
(***************************************************************************)
Max(a, b) == IF a >= b THEN a ELSE b
Min(a, b) == IF a <= b THEN a ELSE b
Abs(a) == IF a >= 0 THEN a ELSE -a

\* Python int(n / d): truncation toward zero (d > 0).
PyInt(n, d) == IF n >= 0 THEN n \div d ELSE -((-n) \div d)

(***************************************************************************)
(* Images.  An image is [w, h, mode, px, pad, filename]: px is the list of *)
(* RGBA samples that stand for its pixels (px[1] is the subject, later     *)
(* samples are the backdrop), pad the width of the margin that the        *)
(* backdrop samples fill around the subject sample.                        *)
(***************************************************************************)
Image(w, h, mode, px, pad) ==
    [w |-> w, h |-> h, mode |-> mode, px |-> px, pad |-> pad]

\* Stands for Python's None where an image is expected.
NoImage == Image(0, 0, "None", <<>>, 0)

(***************************************************************************)
(* Colours and their samples                                               *)
(***************************************************************************)
Red == <<255, 0, 0>>
Green == <<0, 255, 0>>
Blue == <<0, 0, 255>>
Cyan == <<0, 255, 255>>
Gray == <<128, 128, 128>>
White == <<255, 255, 255>>

Opaque(c) == <<c[1], c[2], c[3], 255>>
Clear(c) == <<c[1], c[2], c[3], 0>>
\* A faint remnant: visible, but at most the bounding-box threshold.
Faint(c) == <<c[1], c[2], c[3], 5>>

RECURSIVE SumChannel(_, _, _)
SumChannel(pixels, i, k) ==
    IF k > Len(pixels) THEN 0 ELSE pixels[k][i] + SumChannel(pixels, i, k + 1)

\* The colour computation of compute_dominant_color (cache aside): the mean
\* of the qualifying samples, gray when none qualifies.
DominantColor(image, ignore_transparent) ==
    LET pixels == SelectSeq(image.px,
                      LAMBDA p : (~ignore_transparent) \/ p[4] > 128)
        count == Len(pixels)
    IN  IF count = 0 THEN <<128, 128, 128>>
        ELSE <<SumChannel(pixels, 1, 1) \div count,
               SumChannel(pixels, 2, 1) \div count,
               SumChannel(pixels, 3, 1) \div count>>

\* Integer square root (largest r with r * r <= n), by bisection.
RECURSIVE IsqrtIn(_, _, _)
IsqrtIn(n, lo, hi) ==
    IF lo >= hi THEN lo
    ELSE LET mid == (lo + hi + 1) \div 2
         IN  IF mid * mid <= n THEN IsqrtIn(n, mid, hi)
             ELSE IsqrtIn(n, lo, mid - 1)

Isqrt(n) == IsqrtIn(n, 0, 46340)

\* _color_distance, in hundredths: floor(100 * sqrt(sum of squares)).
_color_distance(c1, c2) ==
    Isqrt(10000 * ((c1[1] - c2[1]) * (c1[1] - c2[1])
                 + (c1[2] - c2[2]) * (c1[2] - c2[2])
                 + (c1[3] - c2[3]) * (c1[3] - c2[3])))

\* Colours for which int(x * 255) of the double HSV round trip falls one
\* short of the exact channel value, with the shortfall per channel.
ComplementShort(color) ==
    CASE color = Blue -> <<0, 1, 0>>
      [] color = <<0, 0, 127>> -> <<0, 1, 0>>
      [] color = <<0, 0, 128>> -> <<0, 1, 0>>
      [] color = <<127, 126, 0>> -> <<0, 1, 0>>
      [] color = <<127, 127, 255>> -> <<0, 1, 0>>
      [] color = <<128, 0, 1>> -> <<0, 0, 1>>
      [] color = <<128, 0, 127>> -> <<0, 0, 1>>
      [] color = <<128, 128, 255>> -> <<0, 1, 0>>
      [] color = <<255, 0, 127>> -> <<0, 0, 1>>
      [] color = <<255, 0, 128>> -> <<0, 0, 1>>
      [] color = <<255, 127, 128>> -> <<0, 0, 1>>
      [] color = <<255, 127, 254>> -> <<0, 0, 1>>
      [] color = <<255, 254, 0>> -> <<0, 1, 0>>
      [] OTHER -> <<0, 0, 0>>

\* A rotation of the hue by a third of the circle: the channels shifted.
_complementary_color_third(color) ==
    <<color[3], color[1], color[2]>>

\* _complementary_color: 180 degree hue rotation keeping saturation and
\* value.  With h6 the rotated hue in units of 1/diff of a sextant, the
\* channels p, q, t of hsv_to_rgb times 255 are min, max - f and min + f.
_complementary_color(color) ==
    LET r == color[1]
        g == color[2]
        b == color[3]
        max_c == Max(r, Max(g, b))
        min_c == Min(r, Min(g, b))
        diff == max_c - min_c
    IN  IF diff = 0 THEN <<255 - max_c, 255 - max_c, 255 - max_c>>
        ELSE
        LET hue == IF max_c = r THEN (g - b) % (6 * diff)
                   ELSE IF max_c = g THEN (b - r) + 2 * diff
                   ELSE (r - g) + 4 * diff
            h6 == (hue + 3 * diff) % (6 * diff)
            i == (h6 \div diff) % 6
            f == h6 - (h6 \div diff) * diff
            v == max_c
            p == min_c
            q == max_c - f
            t == min_c + f
            rgb == CASE i = 0 -> <<v, t, p>>
                     [] i = 1 -> <<q, v, p>>
                     [] i = 2 -> <<p, v, t>>
                     [] i = 3 -> <<p, q, v>>
                     [] i = 4 -> <<t, p, v>>
                     [] OTHER -> <<v, p, q>>
            short == ComplementShort(color)
        IN  <<rgb[1] - short[1], rgb[2] - short[2], rgb[3] - short[3]>>

(***************************************************************************)
(* Files on disk: the background images that Image.open can load.  A path  *)
(* outside the domain fails to open.                                       *)
(***************************************************************************)
Files ==
    [p \in {"bg_red.png", "bg_cyan.png", "bg_blue.png", "bg_gray.png"} |->
        Image(800, 800, "RGB",
              <<Opaque(CASE p = "bg_red.png" -> Red
                         [] p = "bg_cyan.png" -> Cyan
                         [] p = "bg_blue.png" -> Blue
                         [] OTHER -> Gray)>>, 0)]

MissingPath == "bg_missing.png"
BackgroundPaths == DOMAIN Files \cup {MissingPath}

CanOpen(path) == path \in DOMAIN Files
OpenImage(path) == Files[path]

(***************************************************************************)
(* Background selection                                                    *)
(***************************************************************************)
\* Loop of find_best_background over background_paths[k..]; scores are
\* direct_distance - 0.5 * distance, carried doubled.
RECURSIVE FindBestLoop(_, _, _, _, _, _)
FindBestLoop(clothing_color, target_color, background_paths, k, best_bg, best_distance) ==
    IF k > Len(background_paths) THEN best_bg
    ELSE LET bg_path == background_paths[k]
         IN  IF ~CanOpen(bg_path)
             THEN FindBestLoop(clothing_color, target_color, background_paths,
                               k + 1, best_bg, best_distance)
             ELSE LET bg_color == DominantColor(OpenImage(bg_path), FALSE)
                      distance == _color_distance(target_color, bg_color)
                      direct_distance == _color_distance(clothing_color, bg_color)
                      score == 2 * direct_distance - distance
                  IN  IF score > best_distance
                      THEN FindBestLoop(clothing_color, target_color, background_paths,
                                        k + 1, bg_path, score)
                      ELSE FindBestLoop(clothing_color, target_color, background_paths,
                                        k + 1, best_bg, best_distance)

\* Starts from the first path of the list instead of from nothing.
find_best_background_first(clothing_image, background_paths) ==
    LET clothing_color == DominantColor(clothing_image, TRUE)
        target_color == _complementary_color(clothing_color)
    IN  FindBestLoop(clothing_color, target_color, background_paths, 1,
                     IF background_paths = <<>> THEN None ELSE background_paths[1], 0)

find_best_background(clothing_image, background_paths) ==
    LET clothing_color == DominantColor(clothing_image, TRUE)
        target_color == _complementary_color(clothing_color)
    IN  FindBestLoop(clothing_color, target_color, background_paths, 1, None, 0)

\* Loop of _find_best_background_by_color; best_distance = -1 stands for inf.
RECURSIVE FindByColorLoop(_, _, _, _, _)
FindByColorLoop(target_color, background_paths, k, best_bg, best_distance) ==
    IF k > Len(background_paths) THEN best_bg
    ELSE LET bg_path == background_paths[k]
         IN  IF ~CanOpen(bg_path)
             THEN FindByColorLoop(target_color, background_paths, k + 1,
                                  best_bg, best_distance)
             ELSE LET bg_color == DominantColor(OpenImage(bg_path), FALSE)
                      distance == _color_distance(target_color, bg_color)
                  IN  IF best_distance = -1 \/ distance < best_distance
                      THEN FindByColorLoop(target_color, background_paths, k + 1,
                                           bg_path, distance)
                      ELSE FindByColorLoop(target_color, background_paths, k + 1,
                                           best_bg, best_distance)

_find_best_background_by_color(target_color, background_paths) ==
    FindByColorLoop(target_color, background_paths, 1, None, -1)

RECURSIVE SumColors(_, _, _)
SumColors(colors, i, k) ==
    IF k > Len(colors) THEN 0 ELSE colors[k][i] + SumColors(colors, i, k + 1)

find_best_background_for_project(no_bg_images, background_paths) ==
    LET dominant_colors == [k \in 1..Len(no_bg_images) |->
                               DominantColor(no_bg_images[k], TRUE)]
        n == Len(dominant_colors)
    IN  IF n = 0 THEN None
        ELSE _find_best_background_by_color(
                 <<SumColors(dominant_colors, 1, 1) \div n,
                   SumColors(dominant_colors, 2, 1) \div n,
                   SumColors(dominant_colors, 3, 1) \div n>>,
                 background_paths)

(***************************************************************************)
(* Float products.  int(len * ((num / den) * (scale / 100))) is the exact  *)
(* quotient truncated, except at the arguments listed here, where the      *)
(* double product is just below the exact integer and int() gives one less.*)
(***************************************************************************)
DoubleShort ==
    {<<13, 600, 13, 85>>,
     <<13, 900, 13, 85>>,
     <<13, 900, 17, 85>>,
     <<13, 1000, 17, 85>>,
     <<17, 900, 17, 85>>,
     <<17, 1000, 17, 85>>,
     <<200, 600, 400, 85>>,
     <<200, 1200, 400, 85>>,
     <<400, 600, 400, 85>>,
     <<400, 1200, 400, 85>>,
     <<500, 600, 500, 150>>,
     <<500, 700, 500, 150>>,
     <<800, 600, 800, 85>>,
     <<1000, 600, 1000, 150>>,
     <<3000, 900, 3000, 150>>}

\* The length scaled by the multiplier alone, without the fit ratio.
ScaledLengthUnfitted(len, num, den, scale) ==
    (len * scale) \div 100

ScaledLength(len, num, den, scale) ==
    (len * num * scale) \div (den * 100)
        - (IF <<len, num, den, scale>> \in DoubleShort THEN 1 ELSE 0)

\* Image.resize: raises for an empty target size.
CanResize(new_w, new_h) == new_w >= 1 /\ new_h >= 1

Resize(image, new_w, new_h) ==
    [image EXCEPT !.w = new_w, !.h = new_h,
                  !.pad = (image.pad * Min(new_w, new_h)) \div Max(1, Min(image.w, image.h))]

ConvertRGBA(image) == [image EXCEPT !.mode = "RGBA"]

(***************************************************************************)
(* Background removal                                                      *)
(***************************************************************************)
\* rembg.remove on a PNG of the image: the cut-out keeps the subject sample
\* and makes the backdrop samples fully transparent.
Segment(image) ==
    [image EXCEPT !.mode = "RGBA",
                  !.px = [k \in 1..Len(image.px) |->
                             IF k = 1 THEN image.px[k]
                             ELSE <<image.px[k][1], image.px[k][2], image.px[k][3], 0>>]]

\* remove_background(pil_image, max_size); segmentation_raises is the
\* outcome of the external call.
remove_background(pil_image, max_size, segmentation_raises) ==
    LET orig_width == pil_image.w
        orig_height == pil_image.h
        longest == Max(orig_width, orig_height)
        downscale == longest > max_size
        new_w == ScaledLength(orig_width, max_size, longest, 100)
        new_h == ScaledLength(orig_height, max_size, longest, 100)
    IN  IF downscale /\ ~CanResize(new_w, new_h)
        THEN ConvertRGBA(pil_image)
        ELSE LET scaled == IF downscale THEN Resize(pil_image, new_w, new_h)
                           ELSE pil_image
             IN  IF segmentation_raises
                 THEN ConvertRGBA(scaled)
                 ELSE IF downscale
                      THEN Resize(Segment(scaled), orig_width, orig_height)
                      ELSE Segment(scaled)

(***************************************************************************)
(* Composition                                                             *)
(***************************************************************************)
ALPHA_THRESHOLD == 10

\* Image.rotate(-angle, expand=True) for the quarter turns.
Rotate(image, rotation_angle) ==
    IF rotation_angle % 180 = 90
    THEN [image EXCEPT !.w = image.h, !.h = image.w]
    ELSE image

\* Image.getbbox of the samples in shown, as <<left, upper, right, lower>>;
\* <<>> (None) when there is none.
BBox(image, shown) ==
    IF shown = {} THEN <<>>
    ELSE IF shown = {1} /\ Len(image.px) > 1
         THEN <<image.pad, image.pad, image.w - image.pad, image.h - image.pad>>
         ELSE <<0, 0, image.w, image.h>>

\* The bounding box without the trimming: the image bounds.
_effective_bbox_untrimmed(image) ==
    <<0, 0, image.w, image.h>>

\* _effective_bbox: the box of the samples above the threshold, and the
\* image's own getbbox (the samples that are not fully transparent) when
\* there is none.
_effective_bbox(image) ==
    LET solid == {k \in 1..Len(image.px) : image.px[k][4] > ALPHA_THRESHOLD}
        visible == {k \in 1..Len(image.px) : image.px[k][4] > 0}
    IN  IF solid # {} THEN BBox(image, solid) ELSE BBox(image, visible)

\* The clamp of the paste position along one axis: without the lower bound.
ClampPasteNoFloor(position, canvas_dim, new_dim) ==
    Min(position, canvas_dim - new_dim)

\* The clamp of the paste position along one axis.
ClampPaste(position, canvas_dim, new_dim) ==
    Max(0, Min(position, canvas_dim - new_dim))

\* A placeholder that is not sized to the canvas.
PlaceholderUnsized(canvas_width, canvas_height) ==
    [kind |-> "placeholder", w |-> 0, h |-> 0,
     mode |-> "RGBA", fill |-> <<200, 200, 200>>, background |-> NoImage,
     subject |-> NoImage, x |-> 0, y |-> 0, new_w |-> 0, new_h |-> 0]

Placeholder(canvas_width, canvas_height) ==
    [kind |-> "placeholder", w |-> canvas_width, h |-> canvas_height,
     mode |-> "RGBA", fill |-> <<200, 200, 200>>, background |-> NoImage,
     subject |-> NoImage, x |-> 0, y |-> 0, new_w |-> 0, new_h |-> 0]

fit_clothing(clothing_image, background_image, vof, hof, scale, is_horizontal, solid_bg, rotation_angle) ==
    LET canvas_width == IF is_horizontal THEN canvas_width_h ELSE canvas_width_v
        canvas_height == IF is_horizontal THEN canvas_height_h ELSE canvas_height_v
        rotated == IF rotation_angle # 0 THEN Rotate(clothing_image, rotation_angle)
                   ELSE clothing_image
        solid == solid_bg \/ background_image = NoImage
        comp_color == _complementary_color(DominantColor(rotated, TRUE))
        bbox == _effective_bbox(rotated)
        cloth_w == IF bbox # <<>> THEN bbox[3] - bbox[1] ELSE rotated.w
        cloth_h == IF bbox # <<>> THEN bbox[4] - bbox[2] ELSE rotated.h
        \* fit_scale = min(canvas_width / cloth_w, canvas_height / cloth_h)
        by_width == canvas_width * cloth_h <= canvas_height * cloth_w
        fit_n == IF by_width THEN canvas_width ELSE canvas_height
        fit_d == IF by_width THEN cloth_w ELSE cloth_h
        new_w == ScaledLength(cloth_w, fit_n, fit_d, scale)
        new_h == ScaledLength(cloth_h, fit_n, fit_d, scale)
        base_x == (canvas_width - new_w) \div 2
        base_y == (canvas_height - new_h) \div 2
        offset_x == PyInt(hof * canvas_width, 10)
        offset_y == PyInt(vof * canvas_height, 10)
        final_x == ClampPaste(base_x + offset_x, canvas_width, new_w)
        final_y == ClampPaste(base_y + offset_y, canvas_height, new_h)
    IN  IF clothing_image = NoImage \/ cloth_w < 1 \/ cloth_h < 1
           \/ ~CanResize(new_w, new_h)
        THEN Placeholder(canvas_width, canvas_height)
        ELSE [kind |-> "composite", w |-> canvas_width, h |-> canvas_height,
              mode |-> "RGBA",
              fill |-> IF solid THEN comp_color ELSE <<>>,
              background |-> IF solid THEN NoImage ELSE background_image,
              subject |-> rotated,
              x |-> final_x, y |-> final_y, new_w |-> new_w, new_h |-> new_h]

Workers == {"w1", "w2"}

IdleFrame == [pc |-> "idle", image |-> NoImage, ignore_transparent |-> TRUE,
              cached |-> <<>>, color |-> <<>>, result |-> <<>>]

ImageProcessorInit ==
    /\ canvas_width_v = DEFAULT_CANVAS_WIDTH_V
    /\ canvas_height_v = DEFAULT_CANVAS_HEIGHT_V
    /\ canvas_width_h = DEFAULT_CANVAS_WIDTH_H
    /\ canvas_height_h = DEFAULT_CANVAS_HEIGHT_H
    /\ _dominant_color_cache = <<>>
    /\ _cache_lock = None
    /\ cdc = [t \in Workers |-> IdleFrame]
    /\ computed = <<>>
    /\ cdc_calls = 0

\* _apply_settings_from_config on a configuration file without canvas
\* entries: the entries are filled in from the processor.
ConfigInit ==
    config_data = [canvas_width_v |-> DEFAULT_CANVAS_WIDTH_V,
                   canvas_height_v |-> DEFAULT_CANVAS_HEIGHT_V,
                   canvas_width_h |-> DEFAULT_CANVAS_WIDTH_H,
                   canvas_height_h |-> DEFAULT_CANVAS_HEIGHT_H]

(***************************************************************************)
(* Backend.__init__ before any project is added.                           *)
(***************************************************************************)
JobIds == {"job1", "job2"}
CallbackIds == {"cb1", "cb2"}

IdleJob == [pc |-> "idle"]

BackendIdle ==
    /\ projects = <<>>
    /\ use_solid_bg = TRUE
    /\ backgrounds = <<>>
    /\ progress_callback = None
    /\ jobs = [j \in JobIds |-> IdleJob]
    /\ submitted = 0
    /\ cancel_requested = [c \in CallbackIds |-> FALSE]
    /\ events = [j \in JobIds |-> <<>>]
    /\ last = [op |-> "none"]
    /\ ops = 0

\* No pure function is under study.
NoCall ==
    /\ call = [op |-> "none"]
    /\ ret = <<>>

(***************************************************************************)
(* Specification SpecFit: fit_clothing applied to drawn arguments          *)
(***************************************************************************)
SubjectSizes ==
    {<<500, 500>>, <<400, 200>>, <<200, 400>>, <<10, 10>>, <<1, 1>>,
     <<1200, 900>>, <<3000, 1>>, <<13, 17>>}

FitSubjects ==
    {Image(s[1], s[2], "RGBA", <<Opaque(Red)>>, 0) : s \in SubjectSizes}
    \cup {Image(10 + 2 * p, 10 + 2 * p, "RGBA", <<Opaque(Red), Clear(White)>>, p) :
              p \in {5, 45}}
    \cup {Image(400 + 2 * p, 200 + 2 * p, "RGBA", <<Opaque(Red), Clear(White)>>, p) :
              p \in {5, 45}}
    \cup {Image(20, 20, "RGBA", <<Opaque(Red), Faint(White)>>, 5),
          Image(20, 20, "RGBA", <<Faint(Red), Clear(White)>>, 5)}
    \cup {Image(40, 30, "RGBA", <<Clear(Red)>>, 0)}

FitScales == {0, 50, 85, 100, 150, 200}
FitOffsets == {-10, -3, 0, 10}
FitRotations == {0, 90}
FitGrounds ==
    {<<NoImage, FALSE>>, <<Files["bg_cyan.png"], FALSE>>, <<Files["bg_cyan.png"], TRUE>>}

FitInit ==
    /\ ImageProcessorInit
    /\ ConfigInit
    /\ BackendIdle
    /\ \E subject \in FitSubjects, ground \in FitGrounds, vof \in FitOffsets,
          hof \in FitOffsets, scale \in FitScales, is_horizontal \in BOOLEAN,
          rotation_angle \in FitRotations :
          call = [op |-> "fit_clothing", clothing_image |-> subject,
                  background_image |-> ground[1], vof |-> vof, hof |-> hof,
                  scale |-> scale, is_horizontal |-> is_horizontal,
                  use_solid_bg |-> ground[2], rotation_angle |-> rotation_angle]
    /\ ret = <<>>

DoFit ==
    /\ call.op = "fit_clothing"
    /\ ret = <<>>
    /\ ret' = <<fit_clothing(call.clothing_image, call.background_image,
                             call.vof, call.hof, call.scale, call.is_horizontal,
                             call.use_solid_bg, call.rotation_angle)>>
    /\ UNCHANGED <<canvasVars, cacheVars, backendVars, callerVars, call>>

FitNext == DoFit

SpecFit == FitInit /\ [][FitNext]_vars

Pasted == ret # <<>> /\ call.op = "fit_clothing" /\ ret[1].kind = "composite"

ColorLevels == {0, 127, 128, 255}

ColorInputs == {<<r, g, b>> : r \in ColorLevels, g \in ColorLevels, b \in ColorLevels}

ColorInit ==
    /\ ImageProcessorInit
    /\ ConfigInit
    /\ BackendIdle
    /\ \E color \in ColorInputs : call = [op |-> "_complementary_color", color |-> color]
    /\ ret = <<>>

\* _complementary_color of the colour, then of its own result.
DoComplement ==
    /\ call.op = "_complementary_color"
    /\ Len(ret) < 2
    /\ ret' = Append(ret, _complementary_color(IF ret = <<>> THEN call.color
                                               ELSE ret[Len(ret)]))
    /\ UNCHANGED <<canvasVars, cacheVars, backendVars, callerVars, call>>

ColorNext == DoComplement

SpecColor == ColorInit /\ [][ColorNext]_vars

MaxChannel(color) == Max(color[1], Max(color[2], color[3]))
MinChannel(color) == Min(color[1], Min(color[2], color[3]))

\* Each channel of the two colours within 1.
Near(c1, c2) == \A i \in 1..3 : Abs(c1[i] - c2[i]) <= 1

\* C22: for each of (255,0,0), (0,255,0) and (0,0,255), one application of
\* _complementary_color keeps the maximum and the minimum channel up to
\* rounding (saturation and value), and two applications return the
\* original colour with each channel within 1.
C22_ComplementInvolution ==
    (call.op = "_complementary_color" /\ call.color \in {Red, Green, Blue}) =>
        /\ Len(ret) >= 1 =>
               /\ Abs(MaxChannel(ret[1]) - MaxChannel(call.color)) <= 1
               /\ Abs(MinChannel(ret[1]) - MinChannel(call.color)) <= 1
        /\ Len(ret) = 2 => Near(ret[2], call.color)

\* Blue, whose complement is rounded down to (255, 254, 0), is back at
\* blue after the second application.
C22_Witness ==
    /\ call.op = "_complementary_color"
    /\ call.color = Blue
    /\ ret = <<(<<255, 254, 0>>), Blue>>

(***************************************************************************)
(* Specification SpecRemove: remove_background applied to drawn arguments  *)
(***************************************************************************)
PhotoSizes ==
    {<<2400, 1800>>, <<1800, 2400>>, <<1200, 1200>>, <<1201, 7>>, <<3000, 1>>,
     <<1, 3000>>, <<800, 600>>, <<1300, 1300>>, <<5000, 3333>>, <<1250, 1000>>}

MaxSizes == {1200, 600}

RemoveInit ==
    /\ ImageProcessorInit
    /\ ConfigInit
    /\ BackendIdle
    /\ \E size \in PhotoSizes, mode \in {"RGB", "RGBA"}, max_size \in MaxSizes,
          segmentation_raises \in BOOLEAN :
          call = [op |-> "remove_background",
                  pil_image |-> Image(size[1], size[2], mode,
                                      <<Opaque(Red), Opaque(White)>>, 0),
                  max_size |-> max_size,
                  segmentation_raises |-> segmentation_raises]
    /\ ret = <<>>

DoRemove ==
    /\ call.op = "remove_background"
    /\ ret = <<>>
    /\ ret' = <<remove_background(call.pil_image, call.max_size,
                                  call.segmentation_raises)>>
    /\ UNCHANGED <<canvasVars, cacheVars, backendVars, callerVars, call>>

RemoveNext == DoRemove

SpecRemove == RemoveInit /\ [][RemoveNext]_vars

\* C3: when the segmentation step raises, remove_background returns an RGBA
\* image of the same width and height as the image passed in, whether or
\* not the input was downscaled before the segmentation call.
C3_FallbackKeepsInputSize ==
    (ret # <<>> /\ call.op = "remove_background" /\ call.segmentation_raises) =>
        /\ ret[1].mode = "RGBA"
        /\ ret[1].w = call.pil_image.w
        /\ ret[1].h = call.pil_image.h

(***************************************************************************)
(* Specification SpecSelect: the two background selections applied to the  *)
(* same drawn subjects and candidate list                                  *)
(***************************************************************************)
MaxCandidates == 2
MaxSubjects == 2

SeqsUpTo(S, n) == UNION {[1..k -> S] : k \in 0..n}

CutOut(color) == Image(100, 100, "RGBA", <<Opaque(color), Clear(White)>>, 10)

SelectSubjects ==
    {CutOut(c) : c \in {Red, Green, Blue, Cyan, Gray}}
    \cup {Image(100, 100, "RGBA", <<Clear(Red)>>, 0)}

SelectInit ==
    /\ ImageProcessorInit
    /\ ConfigInit
    /\ BackendIdle
    /\ \E subjects \in SeqsUpTo(SelectSubjects, MaxSubjects),
          candidates \in SeqsUpTo(BackgroundPaths, MaxCandidates) :
          call = [op |-> "select", no_bg_images |-> subjects,
                  background_paths |-> candidates]
    /\ ret = [single |-> <<>>, project |-> <<>>]

\* find_best_background on the first subject of the list.
DoFindBest ==
    /\ call.op = "select"
    /\ Len(call.no_bg_images) >= 1
    /\ ret.single = <<>>
    /\ ret' = [ret EXCEPT !.single =
                   <<find_best_background(call.no_bg_images[1], call.background_paths)>>]
    /\ UNCHANGED <<canvasVars, cacheVars, backendVars, callerVars, call>>

DoFindBestForProject ==
    /\ call.op = "select"
    /\ ret.project = <<>>
    /\ ret' = [ret EXCEPT !.project =
                   <<find_best_background_for_project(call.no_bg_images,
                                                      call.background_paths)>>]
    /\ UNCHANGED <<canvasVars, cacheVars, backendVars, callerVars, call>>

SelectNext == DoFindBest \/ DoFindBestForProject

SpecSelect == SelectInit /\ [][SelectNext]_vars

BothSelected == call.op = "select" /\ ret.single # <<>> /\ ret.project # <<>>

\* C5: for every subject image s and candidate list C,
\* find_best_background_for_project([s], C) returns the same path as
\* find_best_background(s, C).
C5_OneScoringPolicy ==
    (BothSelected /\ Len(call.no_bg_images) = 1) => ret.project[1] = ret.single[1]

CandidateColor(path) == DominantColor(OpenImage(path), FALSE)

AverageColor(images) ==
    LET colors == [k \in 1..Len(images) |-> DominantColor(images[k], TRUE)]
    IN  <<SumColors(colors, 1, 1) \div Len(images),
          SumColors(colors, 2, 1) \div Len(images),
          SumColors(colors, 3, 1) \div Len(images)>>

\* The candidate of a two-element list whose colour is the complement of
\* color, when the other candidate has colour color itself; None otherwise.
ComplementaryCandidate(color, paths) ==
    IF /\ Len(paths) = 2
       /\ CanOpen(paths[1]) /\ CanOpen(paths[2])
       /\ \E k \in 1..2 : /\ CandidateColor(paths[k]) = _complementary_color(color)
                          /\ CandidateColor(paths[3 - k]) = color
    THEN LET k == CHOOSE k \in 1..2 :
                      /\ CandidateColor(paths[k]) = _complementary_color(color)
                      /\ CandidateColor(paths[3 - k]) = color
         IN  paths[k]
    ELSE None

\* C6: given exactly two loadable candidates, one of the subject's (average)
\* dominant colour and one of its complementary colour, find_best_background
\* and find_best_background_for_project each return the complementary one,
\* whatever the order of the two in the list.
C6_SelectsComplementaryCandidate ==
    /\ (call.op = "select" /\ ret.single # <<>>
        /\ ComplementaryCandidate(DominantColor(call.no_bg_images[1], TRUE),
                                  call.background_paths) # None)
       => ret.single[1] =
              ComplementaryCandidate(DominantColor(call.no_bg_images[1], TRUE),
                                     call.background_paths)
    /\ (call.op = "select" /\ ret.project # <<>> /\ Len(call.no_bg_images) >= 1
        /\ ComplementaryCandidate(AverageColor(call.no_bg_images),
                                  call.background_paths) # None)
       => ret.project[1] =
              ComplementaryCandidate(AverageColor(call.no_bg_images),
                                     call.background_paths)

\* The candidate paths of the list that can be opened.
Loadable(paths) == {paths[k] : k \in {k \in 1..Len(paths) : CanOpen(paths[k])}}

\* C28: if at least one path of the candidate list can be opened,
\* find_best_background returns one of the loadable candidate paths and
\* never None, whatever the subject colour and the candidate colours
\* (a candidate of the subject's own dominant colour included).
C28_LoadableCandidateChosen ==
    (call.op = "select" /\ ret.single # <<>>
     /\ Loadable(call.background_paths) # {})
        => ret.single[1] \in Loadable(call.background_paths)

(***************************************************************************)
(* Specification SpecCache: worker threads calling compute_dominant_color  *)
(***************************************************************************)
CACHE_LIMIT == 200
CACHE_TRIM == 50

MaxCdcCalls == 3

\* An image object: id is the identity of the object in memory, which
\* image.tobytes() does not see.
Object(id, image) == [id |-> id] @@ image

\* A background file in palette mode, of one colour: every pixel is index 0
\* of a palette whose entry 0 is the colour.
Indexed(color) == Image(800, 800, "P", <<Opaque(color)>>, 0)

\* A background file whose header opens and whose pixel data is cut off:
\* Image.open returns it, loading its pixels raises.
Truncated == Image(800, 800, "RGB", <<>>, 0)

CanLoad(image) == image.px # <<>>

\* Two objects with the same pixels, one with other pixels, two palette
\* files of different colours, and a file that cannot be loaded.
CacheImages ==
    {Object(1, CutOut(Red)), Object(2, CutOut(Red)), Object(3, CutOut(Cyan)),
     Object(4, Indexed(Red)), Object(5, Indexed(Blue)), Object(6, Truncated)}

\* image.tobytes(): the raw buffer of the image in its own mode, which for
\* a palette image is the palette indices of the pixels, not their colours.
ToBytes(image) ==
    IF image.mode = "P" THEN [k \in 1..Len(image.px) |-> k - 1] ELSE image.px

\* hashlib.md5(image.tobytes()) with the size and the flag.
CacheKey(image, ignore_transparent) ==
    <<ToBytes(image), <<image.w, image.h>>, ignore_transparent>>

CacheGet(cache, key) ==
    IF \E i \in 1..Len(cache) : cache[i].key = key
    THEN <<cache[CHOOSE i \in 1..Len(cache) : cache[i].key = key].color>>
    ELSE <<>>

\* Every assignment makes a new entry.
CachePutAlways(cache, key, color) ==
    Append(cache, [key |-> key, color |-> color])

\* dict item assignment: a present key keeps its position.
CachePut(cache, key, color) ==
    IF \E i \in 1..Len(cache) : cache[i].key = key
    THEN [i \in 1..Len(cache) |->
             IF cache[i].key = key THEN [key |-> key, color |-> color] ELSE cache[i]]
    ELSE Append(cache, [key |-> key, color |-> color])

Count(key) == IF key \in DOMAIN computed THEN computed[key] ELSE 0

CdcCall(t) ==
    /\ cdc[t].pc = "idle"
    /\ cdc_calls < MaxCdcCalls
    /\ \E image \in CacheImages, ignore_transparent \in BOOLEAN :
          cdc' = [cdc EXCEPT ![t] =
                     IF CanLoad(image)
                     THEN [IdleFrame EXCEPT !.pc = "lookup", !.image = image,
                                            !.ignore_transparent = ignore_transparent]
                     \* image.tobytes() raises: except Exception returns gray
                     ELSE [IdleFrame EXCEPT !.image = image,
                                            !.ignore_transparent = ignore_transparent,
                                            !.result = <<(<<128, 128, 128>>)>>]]
    /\ cdc_calls' = cdc_calls + 1
    /\ UNCHANGED <<canvasVars, _dominant_color_cache, _cache_lock, computed,
                   backendVars, callerVars, pureVars>>

\* with self._cache_lock: (first block) entered
CdcAcquireLookup(t) ==
    /\ cdc[t].pc = "lookup"
    /\ _cache_lock = None
    /\ _cache_lock' = t
    /\ cdc' = [cdc EXCEPT ![t].pc = "get"]
    /\ UNCHANGED <<canvasVars, _dominant_color_cache, computed, cdc_calls,
                   backendVars, callerVars, pureVars>>

\* The entries of cache with the entry of key moved to the end.
MoveToEnd(cache, key) ==
    LET Pick(e) == e.key # key
        hit == cache[CHOOSE i \in 1..Len(cache) : cache[i].key = key]
    IN  Append(SelectSeq(cache, Pick), hit)

\* A lookup that makes the entry it returns the most recent one.
CdcGetTouch(t) ==
    /\ cdc[t].pc = "get"
    /\ _cache_lock = t
    /\ LET key == CacheKey(cdc[t].image, cdc[t].ignore_transparent)
           cached == CacheGet(_dominant_color_cache, key)
       IN  /\ cdc' = [cdc EXCEPT ![t].cached = cached,
                                  ![t].pc = IF cached # <<>> THEN "idle" ELSE "compute",
                                  ![t].result = cached]
           /\ _dominant_color_cache' =
                  IF cached # <<>> THEN MoveToEnd(_dominant_color_cache, key)
                  ELSE _dominant_color_cache
    /\ _cache_lock' = None
    /\ UNCHANGED <<canvasVars, computed, cdc_calls,
                   backendVars, callerVars, pureVars>>

\* the lookup, leaving the first block, and the early return on a hit
CdcGet(t) ==
    /\ cdc[t].pc = "get"
    /\ _cache_lock = t
    /\ LET cached == CacheGet(_dominant_color_cache,
                              CacheKey(cdc[t].image, cdc[t].ignore_transparent))
       IN  cdc' = [cdc EXCEPT ![t].cached = cached,
                              ![t].pc = IF cached # <<>> THEN "idle" ELSE "compute",
                              ![t].result = cached]
    /\ _cache_lock' = None
    /\ UNCHANGED <<canvasVars, _dominant_color_cache, computed, cdc_calls,
                   backendVars, callerVars, pureVars>>

\* resize to 30x30 and average the qualifying pixels, outside the lock
CdcCompute(t) ==
    /\ cdc[t].pc = "compute"
    /\ LET key == CacheKey(cdc[t].image, cdc[t].ignore_transparent)
       IN  computed' = (key :> (Count(key) + 1)) @@ computed
    /\ cdc' = [cdc EXCEPT ![t].color =
                   <<DominantColor(cdc[t].image, cdc[t].ignore_transparent)>>,
                          ![t].pc = "store"]
    /\ UNCHANGED <<canvasVars, _dominant_color_cache, _cache_lock, cdc_calls,
                   backendVars, callerVars, pureVars>>

\* with self._cache_lock: (second block) entered
CdcAcquireStore(t) ==
    /\ cdc[t].pc = "store"
    /\ _cache_lock \in {None, t}
    /\ _cache_lock' = t
    /\ cdc' = [cdc EXCEPT ![t].pc = "insert"]
    /\ UNCHANGED <<canvasVars, _dominant_color_cache, computed, cdc_calls,
                   backendVars, callerVars, pureVars>>

CdcInsert(t) ==
    /\ cdc[t].pc = "insert"
    /\ _cache_lock = t
    /\ _dominant_color_cache' =
           CachePut(_dominant_color_cache,
                    CacheKey(cdc[t].image, cdc[t].ignore_transparent), cdc[t].color[1])
    /\ cdc' = [cdc EXCEPT ![t].pc = "trim"]
    /\ UNCHANGED <<canvasVars, _cache_lock, computed, cdc_calls,
                   backendVars, callerVars, pureVars>>

\* Leaving the second block and returning with no entry deleted.
CdcTrimSkipped(t) ==
    /\ cdc[t].pc = "trim"
    /\ _cache_lock = t
    /\ _cache_lock' = None
    /\ cdc' = [cdc EXCEPT ![t].pc = "idle", ![t].result = cdc[t].color]
    /\ UNCHANGED <<canvasVars, _dominant_color_cache, computed, cdc_calls,
                   backendVars, callerVars, pureVars>>

\* the trim, leaving the second block, and the return
CdcTrim(t) ==
    /\ cdc[t].pc = "trim"
    /\ _cache_lock = t
    /\ IF Len(_dominant_color_cache) > CACHE_LIMIT
       THEN /\ _dominant_color_cache' =
                   SubSeq(_dominant_color_cache, CACHE_TRIM + 1, Len(_dominant_color_cache))
            /\ computed' = [k \in DOMAIN computed |->
                               IF \E i \in 1..CACHE_TRIM : _dominant_color_cache[i].key = k
                               THEN 0 ELSE computed[k]]
       ELSE UNCHANGED <<_dominant_color_cache, computed>>
    /\ _cache_lock' = None
    /\ cdc' = [cdc EXCEPT ![t].pc = "idle", ![t].result = cdc[t].color]
    /\ UNCHANGED <<canvasVars, cdc_calls, backendVars, callerVars, pureVars>>

\* The cache after the colours of n earlier images, of n other sizes, were
\* computed.
Prefilled(n) == [i \in 1..n |-> [key |-> <<<<>>, <<i, i>>, TRUE>>, color |-> Gray]]

InitialCaches == {<<>>, Prefilled(CACHE_LIMIT - 1), Prefilled(CACHE_LIMIT)}

CacheInit ==
    /\ canvas_width_v = DEFAULT_CANVAS_WIDTH_V
    /\ canvas_height_v = DEFAULT_CANVAS_HEIGHT_V
    /\ canvas_width_h = DEFAULT_CANVAS_WIDTH_H
    /\ canvas_height_h = DEFAULT_CANVAS_HEIGHT_H
    /\ ConfigInit
    /\ _dominant_color_cache \in InitialCaches
    /\ _cache_lock = None
    /\ cdc = [t \in Workers |-> IdleFrame]
    /\ computed = <<>>
    /\ cdc_calls = 0
    /\ BackendIdle
    /\ NoCall

CacheNext ==
    \E t \in Workers :
        \/ CdcCall(t)
        \/ CdcAcquireLookup(t)
        \/ CdcGet(t)
        \/ CdcCompute(t)
        \/ CdcAcquireStore(t)
        \/ CdcInsert(t)
        \/ CdcTrim(t)

SpecCache == CacheInit /\ [][CacheNext]_vars

\* C7: the cache lock covers the whole read-or-compute-and-insert sequence:
\* of the threads that call compute_dominant_color for the same uncached
\* key, at most one performs the colour computation while the key has not
\* been evicted; the others obtain the cached value.
C7_NoDuplicateComputation ==
    \A key \in DOMAIN computed : computed[key] <= 1

\* The keys of the cache in dict order.
Keys(cache) == [i \in 1..Len(cache) |-> cache[i].key]

\* C30: eviction is insertion-ordered.  A lookup, hit or miss, leaves the
\* order of the entries as it is; an insertion puts a new key after all
\* the others; and when the insertion made the cache exceed CACHE_LIMIT
\* entries, exactly the CACHE_TRIM entries that come first in that order,
\* the earliest inserted, are removed and the entry just inserted is kept.
C30_InsertionOrderedEviction ==
    [][\A t \in Workers :
          LET key == CacheKey(cdc[t].image, cdc[t].ignore_transparent)
              old == _dominant_color_cache
              new == _dominant_color_cache'
          IN  /\ (cdc[t].pc = "get" /\ cdc'[t].pc # "get") => new = old
              /\ (cdc[t].pc = "insert" /\ cdc'[t].pc # "insert")
                     => /\ Keys(new) \in {Keys(old), Append(Keys(old), key)}
                        /\ \E i \in 1..Len(new) : new[i].key = key
              /\ (cdc[t].pc = "trim" /\ cdc'[t].pc # "trim")
                     => IF Len(old) > CACHE_LIMIT
                        THEN /\ Len(new) = Len(old) - CACHE_TRIM
                             /\ \A i \in 1..Len(new) : new[i] = old[i + CACHE_TRIM]
                             /\ new[Len(new)].key = key
                        ELSE new = old]_vars

\* A lookup hit an entry that was not the latest one, and an insertion
\* then evicted the first CACHE_TRIM entries: the entry that was hit is
\* still second to last.
C30_Witness ==
    /\ Len(_dominant_color_cache) = CACHE_LIMIT + 1 - CACHE_TRIM
    /\ _dominant_color_cache[1] = Prefilled(CACHE_LIMIT)[CACHE_TRIM + 1]
    /\ \E t \in Workers :
          /\ cdc[t].pc = "idle"
          /\ cdc[t].cached # <<>>
          /\ _dominant_color_cache[Len(_dominant_color_cache) - 1].key =
                 CacheKey(cdc[t].image, cdc[t].ignore_transparent)

(***************************************************************************)
(* Backend: projects and processed-image records                           *)
(***************************************************************************)
\* A loaded photo: the subject on a white backdrop, already RGBA.
Photo(color) == Image(1000, 1000, "RGBA", <<Opaque(color), Opaque(White)>>, 100)

ClothingImage(path, image) == [path |-> path, image |-> image]

ProjectData(name, clothing_images) ==
    [name |-> name, clothing_images |-> clothing_images, processed_images |-> <<>>]

REMOVE_MAX_SIZE == 1200
SegmentationOutcomes == BOOLEAN

default_processed_entry(path, solid_bg) ==
    [path |-> path, no_bg |-> NoImage, bg_path |-> None, user_bg_path |-> None,
     processed |-> NoImage, vof |-> DEFAULT_VERTICAL_OFFSET,
     hof |-> DEFAULT_HORIZONTAL_OFFSET, scale |-> DEFAULT_SIZE_SCALE,
     is_horizontal |-> FALSE, use_solid_bg |-> solid_bg,
     skip_bg_removal |-> FALSE, rotation_angle |-> 0]

\* dict.get(key, default)
Get(dict, key, default) == IF key \in DOMAIN dict THEN dict[key] ELSE default

\* dict.update(other) / item assignment on a record
Update(dict, other) ==
    [k \in DOMAIN dict \cup DOMAIN other |->
        IF k \in DOMAIN other THEN other[k] ELSE dict[k]]

\* _ensure_processed_entry: the index of the record it returns (the record
\* at index when there is one, else a default record appended at the end) ...
EnsuredIndex(project, index) ==
    IF index <= Len(project.processed_images) THEN index
    ELSE Len(project.processed_images) + 1

\* ... and the records afterwards.
_ensure_processed_entry(project, index) ==
    IF index <= Len(project.processed_images) THEN project.processed_images
    ELSE Append(project.processed_images,
                default_processed_entry(project.clothing_images[index].path, use_solid_bg))

\* try: Image.open(path) except: None
\* A path that cannot be opened yields a blank image.
TryOpenBlank(path) ==
    IF CanOpen(path) THEN OpenImage(path) ELSE Image(1, 1, "RGB", <<Opaque(Gray)>>, 0)

\* Image.open(path) inside try/except: None when it raises.
TryOpen(path) == IF CanOpen(path) THEN OpenImage(path) ELSE NoImage

\* The record after lines 344-379 of process_single_image.
SingleImageRecord(processed, original_img, skip_bg_removal, user_bg_path, segmentation_raises) ==
    LET no_bg == IF skip_bg_removal THEN original_img
                 ELSE remove_background(original_img, REMOVE_MAX_SIZE, segmentation_raises)
        select == user_bg_path = None /\ ~processed.use_solid_bg /\ backgrounds # <<>>
        best_bg == IF select THEN find_best_background(no_bg, backgrounds) ELSE None
        bg_path == IF user_bg_path # None THEN user_bg_path
                   ELSE IF best_bg # None THEN best_bg
                   ELSE processed.bg_path
        bg_source == IF user_bg_path # None THEN TryOpen(user_bg_path)
                     ELSE IF best_bg # None THEN TryOpen(best_bg)
                     ELSE NoImage
    IN  [processed EXCEPT
            !.skip_bg_removal = skip_bg_removal,
            !.no_bg = no_bg,
            !.user_bg_path = IF user_bg_path # None THEN user_bg_path ELSE @,
            !.bg_path = bg_path,
            !.processed = fit_clothing(no_bg, bg_source, processed.vof, processed.hof,
                                       processed.scale, processed.is_horizontal,
                                       processed.use_solid_bg, processed.rotation_angle)]

ValidProject(project_index) == project_index \in 1..Len(projects)

\* process_single_image(project_index, image_index, skip_bg_removal, user_bg_path)
ProcessSingleImage(project_index, image_index, skip_bg_removal, user_bg_path) ==
    /\ IF ~ValidProject(project_index)
          \/ image_index > Len(projects[project_index].clothing_images)
       THEN /\ last' = [op |-> "process_single_image", project_index |-> project_index,
                        image_index |-> image_index, ok |-> FALSE]
            /\ UNCHANGED projects
       ELSE \E segmentation_raises \in
                   IF skip_bg_removal THEN {FALSE} ELSE SegmentationOutcomes :
            LET project == projects[project_index]
                original_img == project.clothing_images[image_index].image
                records == _ensure_processed_entry(project, image_index)
                at == EnsuredIndex(project, image_index)
            IN  /\ projects' = [projects EXCEPT ![project_index].processed_images =
                       [records EXCEPT ![at] =
                           SingleImageRecord(records[at], original_img, skip_bg_removal,
                                             user_bg_path, segmentation_raises)]]
                /\ last' = [op |-> "process_single_image", project_index |-> project_index,
                            image_index |-> image_index, ok |-> TRUE]
    /\ UNCHANGED <<canvasVars, cacheVars, use_solid_bg, backgrounds, progress_callback,
                   jobs, submitted, cancel_requested, events, ops, pureVars>>

AdjustmentKeys ==
    {"vof", "hof", "scale", "is_horizontal", "use_solid_bg", "skip_bg_removal",
     "rotation_angle"}

\* The record after lines 461-511 of apply_image_adjustments.
AdjustedRecord(processed, original_img, adjustments, segmentation_raises) ==
    LET assigned == [k \in DOMAIN processed |->
                        IF k \in AdjustmentKeys /\ k \in DOMAIN adjustments
                        THEN adjustments[k] ELSE processed[k]]
        no_bg == IF assigned.no_bg # NoImage THEN assigned.no_bg
                 ELSE IF assigned.skip_bg_removal THEN original_img
                 ELSE remove_background(original_img, REMOVE_MAX_SIZE, segmentation_raises)
        has_bg == "bg_path" \in DOMAIN adjustments
        user_bg == IF has_bg THEN adjustments.bg_path ELSE None
        chosen == user_bg # None /\ user_bg \notin {"(Auto)", "(Solid Color)"}
        select == has_bg /\ ~chosen /\ ~assigned.use_solid_bg /\ backgrounds # <<>>
        bg_path == IF chosen THEN user_bg
                   ELSE IF select THEN find_best_background(no_bg, backgrounds)
                   ELSE assigned.bg_path
        bg_source == IF bg_path # None /\ ~assigned.use_solid_bg THEN TryOpen(bg_path)
                     ELSE NoImage
    IN  [assigned EXCEPT
            !.no_bg = no_bg,
            !.user_bg_path = IF chosen THEN user_bg ELSE IF has_bg THEN None ELSE @,
            !.bg_path = bg_path,
            !.processed = fit_clothing(no_bg, bg_source, assigned.vof, assigned.hof,
                                       assigned.scale, assigned.is_horizontal,
                                       assigned.use_solid_bg, assigned.rotation_angle)]

\* apply_image_adjustments(project_index, image_index, **adjustments)
ApplyImageAdjustments(project_index, image_index, adjustments) ==
    /\ IF ~ValidProject(project_index)
          \/ image_index > Len(projects[project_index].processed_images)
       THEN /\ last' = [op |-> "apply_image_adjustments", project_index |-> project_index,
                        image_index |-> image_index, ok |-> FALSE]
            /\ UNCHANGED projects
       ELSE \E segmentation_raises \in
                   IF projects[project_index].processed_images[image_index].no_bg = NoImage
                   THEN SegmentationOutcomes ELSE {FALSE} :
            LET project == projects[project_index]
                original_img == project.clothing_images[image_index].image
            IN  /\ projects' = [projects EXCEPT
                       ![project_index].processed_images[image_index] =
                           AdjustedRecord(@, original_img, adjustments, segmentation_raises)]
                /\ last' = [op |-> "apply_image_adjustments", project_index |-> project_index,
                            image_index |-> image_index, ok |-> TRUE]
    /\ UNCHANGED <<canvasVars, cacheVars, use_solid_bg, backgrounds, progress_callback,
                   jobs, submitted, cancel_requested, events, ops, pureVars>>

\* update_canvas_settings keeping the horizontal canvas.
update_canvas_settings_vertical(width_v, height_v, width_h, height_h) ==
    /\ canvas_width_v' = width_v
    /\ canvas_height_v' = height_v
    /\ UNCHANGED <<canvas_width_h, canvas_height_h>>

\* ImageProcessor.update_canvas_settings
update_canvas_settings(width_v, height_v, width_h, height_h) ==
    /\ canvas_width_v' = width_v
    /\ canvas_height_v' = height_v
    /\ canvas_width_h' = width_h
    /\ canvas_height_h' = height_h

\* A direct call of update_canvas_settings on the processor.
UpdateCanvasSettings(width_v, height_v, width_h, height_h) ==
    /\ update_canvas_settings(width_v, height_v, width_h, height_h)
    /\ last' = [op |-> "update_canvas_settings",
                canvas |-> <<width_v, height_v, width_h, height_h>>]
    /\ UNCHANGED <<config_data, cacheVars, backendVars, cancel_requested, events, ops,
                   pureVars>>

\* save_main_config(updated_config): the snapshot of the configuration with
\* the update applied sets the project-wide setting and the canvas.
save_main_config(updated_config) ==
    LET config_snapshot == [k \in DOMAIN config_data |->
                               Get(updated_config, k, config_data[k])]
    IN  /\ use_solid_bg' = Get(updated_config, "use_solid_bg", use_solid_bg)
        /\ update_canvas_settings(config_snapshot.canvas_width_v,
                                  config_snapshot.canvas_height_v,
                                  config_snapshot.canvas_width_h,
                                  config_snapshot.canvas_height_h)
        /\ config_data' = config_snapshot
        /\ last' = [op |-> "save_main_config",
                    canvas |-> <<config_snapshot.canvas_width_v,
                                 config_snapshot.canvas_height_v,
                                 config_snapshot.canvas_width_h,
                                 config_snapshot.canvas_height_h>>]
        /\ UNCHANGED <<cacheVars, projects, backgrounds, progress_callback,
                       jobs, submitted, cancel_requested, events, ops, pureVars>>

\* save_main_config({"use_solid_bg": value}): the project-wide setting.
SaveMainConfig(value) ==
    /\ use_solid_bg # value
    /\ save_main_config([use_solid_bg |-> value])

(***************************************************************************)
(* Specification SpecAdjust: the synchronous single-image calls on one     *)
(* project                                                                 *)
(***************************************************************************)
BackgroundChoices ==
    {<<>>, <<"bg_red.png">>, <<"bg_red.png", "bg_cyan.png">>}

UserBackgrounds == {None, "bg_blue.png", MissingPath}

\* Keyword arguments of apply_image_adjustments: one setting at a time, and
\* the full set that the adjustment panel sends.
PanelAdjustments(skip_bg_removal, solid_bg, bg_path) ==
    [vof |-> 0, hof |-> 0, scale |-> DEFAULT_SIZE_SCALE, bg_path |-> bg_path,
     is_horizontal |-> FALSE, skip_bg_removal |-> skip_bg_removal,
     use_solid_bg |-> solid_bg, force_reprocess |-> TRUE, rotation_angle |-> 0]

AdjustmentChoices ==
    {[vof |-> 3, hof |-> -10], [vof |-> 0, hof |-> 0], [scale |-> 150],
     [scale |-> DEFAULT_SIZE_SCALE],
     [rotation_angle |-> 90], [rotation_angle |-> 0]}
    \cup {[is_horizontal |-> b] : b \in BOOLEAN}
    \cup {[use_solid_bg |-> b] : b \in BOOLEAN}
    \cup {[skip_bg_removal |-> b, force_reprocess |-> TRUE] : b \in BOOLEAN}
    \cup {[bg_path |-> path] : path \in {None, "(Auto)", "(Solid Color)", "bg_red.png",
                                         MissingPath}}
    \cup {PanelAdjustments(b, c, None) : b \in BOOLEAN, c \in BOOLEAN}

AdjustInit ==
    /\ ImageProcessorInit
    /\ ConfigInit
    /\ projects = <<ProjectData("A", <<ClothingImage("a1.jpg", Photo(Red))>>)>>
    /\ use_solid_bg \in BOOLEAN
    /\ backgrounds \in BackgroundChoices
    /\ progress_callback = None
    /\ jobs = [j \in JobIds |-> IdleJob]
    /\ submitted = 0
    /\ cancel_requested = [c \in CallbackIds |-> FALSE]
    /\ events = [j \in JobIds |-> <<>>]
    /\ last = [op |-> "none"]
    /\ ops = 0
    /\ NoCall

AdjustNext ==
    \/ \E image_index \in 1..2, skip_bg_removal \in BOOLEAN, user_bg_path \in UserBackgrounds :
           ProcessSingleImage(1, image_index, skip_bg_removal, user_bg_path)
    \/ \E image_index \in 1..2, adjustments \in AdjustmentChoices :
           ApplyImageAdjustments(1, image_index, adjustments)
    \/ \E value \in BOOLEAN : SaveMainConfig(value)

SpecAdjust == AdjustInit /\ [][AdjustNext]_vars


Records == {<<p, i>> : p \in 1..2, i \in 1..3}
HasRecord(p, i) == p <= Len(projects) /\ i <= Len(projects[p].processed_images)
RecordAt(p, i) == projects[p].processed_images[i]
OriginalAt(p, i) == projects[p].clothing_images[i].image

\* The composite that fit_clothing makes of a record's current values.
CompositeOf(processed) ==
    fit_clothing(processed.no_bg,
                 IF processed.bg_path # None THEN TryOpen(processed.bg_path) ELSE NoImage,
                 processed.vof, processed.hof, processed.scale, processed.is_horizontal,
                 processed.use_solid_bg, processed.rotation_angle)

\* C9: after every successful process_single_image or apply_image_adjustments
\* call, the record's processed is the composite of the record's current vof,
\* hof, scale, is_horizontal, use_solid_bg, rotation_angle, background and
\* no_bg; no record holds a processed computed from earlier values.
C9_NoStaleComposite ==
    \A r \in Records :
        (HasRecord(r[1], r[2]) /\ RecordAt(r[1], r[2]).processed # NoImage) =>
            RecordAt(r[1], r[2]).processed = CompositeOf(RecordAt(r[1], r[2]))

\* C10: when apply_image_adjustments changes a record's skip_bg_removal, the
\* subject is extracted again, so that afterwards no_bg is the original image
\* if skip_bg_removal is true and a background-removed image if it is false.
C10_ReextractedOnSkipChange ==
    [][\A r \in Records :
          (/\ HasRecord(r[1], r[2])
           /\ last'.op = "apply_image_adjustments" /\ last'.ok
           /\ RecordAt(r[1], r[2]).skip_bg_removal
                  # projects'[r[1]].processed_images[r[2]].skip_bg_removal)
          => LET after == projects'[r[1]].processed_images[r[2]]
             IN  after.no_bg =
                     IF after.skip_bg_removal THEN OriginalAt(r[1], r[2])
                     ELSE remove_background(OriginalAt(r[1], r[2]), REMOVE_MAX_SIZE, FALSE)]_vars

(***************************************************************************)
(* Batch jobs: process_project_images_async and the worker it submits      *)
(***************************************************************************)
\* A call of the installed progress callback comes back or raises; the
\* worker makes it outside its try block (lines 400-401 and 446-447), so
\* an exception of the callback ends the job in pc "raised".
CallbackOutcomes == {"returns", "raises"}

\* What a progress callback of ui_process_current_project_images returns.
CallbackReturn(callback) == ~cancel_requested[callback]

\* The progress call at the top of an iteration, for the idx-th image.
ImageEventOffByOne(callback, idx, total_images) ==
    [callback |-> callback, current |-> idx - 1, total |-> total_images,
     message |-> "image", returned |-> CallbackReturn(callback)]

ImageEvent(callback, idx, total_images) ==
    [callback |-> callback, current |-> idx, total |-> total_images,
     message |-> "image", returned |-> CallbackReturn(callback)]

\* The progress call after the loop.
CompleteEvent(callback, total_images) ==
    [callback |-> callback, current |-> total_images, total |-> total_images,
     message |-> "complete", returned |-> CallbackReturn(callback)]

NextJob == IF submitted = 0 THEN "job1" ELSE "job2"

\* process_project_images_async(project_index, progress_callback);
\* process_project_images is the call with no callback.
Submit(j, project_index, callback) ==
    /\ submitted < Cardinality(JobIds)
    /\ j = NextJob
    /\ jobs[j].pc = "idle"
    /\ progress_callback' = callback
    /\ jobs' = [jobs EXCEPT ![j] =
                   [pc |-> "start", project_index |-> project_index,
                    submitted_with |-> callback, idx |-> 0, total_images |-> 0,
                    current_global_setting |-> FALSE, processed |-> 0,
                    no_bg |-> NoImage, handled |-> <<>>,
                    result |-> [success |-> FALSE, errors |-> <<>>]]]
    /\ submitted' = submitted + 1
    /\ UNCHANGED <<canvasVars, cacheVars, projects, use_solid_bg, backgrounds,
                   callerVars, pureVars>>

\* lines 391-397
JobStart(j) ==
    /\ jobs[j].pc = "start"
    /\ IF ~ValidProject(jobs[j].project_index)
          \/ projects[jobs[j].project_index].clothing_images = <<>>
       THEN jobs' = [jobs EXCEPT ![j].pc = "done",
                                 ![j].result = [success |-> FALSE,
                                                errors |-> <<"No project/images">>]]
       ELSE jobs' = [jobs EXCEPT
                        ![j].pc = "loop",
                        ![j].idx = 1,
                        ![j].total_images =
                            Len(projects[jobs[j].project_index].clothing_images),
                        ![j].current_global_setting = use_solid_bg]
    /\ UNCHANGED <<canvasVars, cacheVars, projects, use_solid_bg, backgrounds,
                   progress_callback, submitted, callerVars, pureVars>>

\* lines 399-401: the next image of the list, and the progress call for it
JobProgress(j) ==
    /\ jobs[j].pc = "loop"
    /\ IF jobs[j].idx > Len(projects[jobs[j].project_index].clothing_images)
       THEN /\ jobs' = [jobs EXCEPT ![j].pc = "complete"]
            /\ UNCHANGED events
       ELSE IF progress_callback # None
            THEN \E outcome \in CallbackOutcomes :
                     IF outcome = "raises"
                     THEN /\ jobs' = [jobs EXCEPT ![j].pc = "raised"]
                          /\ UNCHANGED events
                     ELSE /\ jobs' = [jobs EXCEPT ![j].pc = "ensure"]
                          /\ events' = [events EXCEPT ![j] =
                                 Append(@, ImageEvent(progress_callback, jobs[j].idx,
                                                      jobs[j].total_images))]
            ELSE /\ jobs' = [jobs EXCEPT ![j].pc = "ensure"]
                 /\ UNCHANGED events
    /\ UNCHANGED <<canvasVars, cacheVars, projects, use_solid_bg, backgrounds,
                   progress_callback, submitted, cancel_requested, last, ops, pureVars>>

\* line 313: the test of _ensure_processed_entry
JobEnsure(j) ==
    /\ jobs[j].pc = "ensure"
    /\ IF jobs[j].idx <= Len(projects[jobs[j].project_index].processed_images)
       THEN jobs' = [jobs EXCEPT ![j].pc = "examine", ![j].processed = jobs[j].idx]
       ELSE jobs' = [jobs EXCEPT ![j].pc = "append"]
    /\ UNCHANGED <<canvasVars, cacheVars, projects, use_solid_bg, backgrounds,
                   progress_callback, submitted, callerVars, pureVars>>

\* The default record is appended to the first project's records.
JobAppendFirstProject(j) ==
    /\ jobs[j].pc = "append"
    /\ LET p == jobs[j].project_index
       IN  /\ projects' = [projects EXCEPT ![1].processed_images =
                   Append(@, default_processed_entry(
                                 projects[p].clothing_images[jobs[j].idx].path,
                                 use_solid_bg))]
           /\ jobs' = [jobs EXCEPT ![j].pc = "examine",
                                   ![j].processed = Len(projects[p].processed_images) + 1]
    /\ UNCHANGED <<canvasVars, cacheVars, use_solid_bg, backgrounds,
                   progress_callback, submitted, callerVars, pureVars>>

\* lines 316-319: the default record is appended
JobAppend(j) ==
    /\ jobs[j].pc = "append"
    /\ LET p == jobs[j].project_index
       IN  /\ projects' = [projects EXCEPT ![p].processed_images =
                   Append(@, default_processed_entry(
                                 projects[p].clothing_images[jobs[j].idx].path,
                                 use_solid_bg))]
           /\ jobs' = [jobs EXCEPT ![j].pc = "examine",
                                   ![j].processed = Len(projects[p].processed_images) + 1]
    /\ UNCHANGED <<canvasVars, cacheVars, use_solid_bg, backgrounds,
                   progress_callback, submitted, callerVars, pureVars>>

\* lines 406-413
needs_processing(processed, current_global_setting) ==
    \/ processed.processed = NoImage
    \/ /\ ~Get(processed, "individual_override", FALSE)
       /\ processed.use_solid_bg # current_global_setting

\* lines 406-418: skip the image, or remove its background
JobRemoveBackground(j) ==
    /\ jobs[j].pc = "examine"
    /\ LET p == jobs[j].project_index
           processed == projects[p].processed_images[jobs[j].processed]
           original_img == projects[p].clothing_images[jobs[j].idx].image
       IN  IF ~needs_processing(processed, jobs[j].current_global_setting)
           THEN jobs' = [jobs EXCEPT ![j].pc = "loop", ![j].idx = @ + 1]
           ELSE \E segmentation_raises \in SegmentationOutcomes :
                    jobs' = [jobs EXCEPT
                        ![j].pc = "composite",
                        ![j].no_bg = remove_background(original_img, REMOVE_MAX_SIZE,
                                                       segmentation_raises)]
    /\ UNCHANGED <<canvasVars, cacheVars, projects, use_solid_bg, backgrounds,
                   progress_callback, submitted, callerVars, pureVars>>

\* The record after lines 419-442 of the worker.
BatchRecord(processed, path, no_bg) ==
    LET reset == Update(processed, default_processed_entry(path, use_solid_bg))
        select == ~use_solid_bg /\ backgrounds # <<>>
        best_bg == IF select THEN find_best_background(no_bg, backgrounds) ELSE None
        bg_source == IF best_bg # None THEN TryOpen(best_bg) ELSE NoImage
    IN  [reset EXCEPT
            !.no_bg = no_bg,
            !.bg_path = IF best_bg # None THEN best_bg ELSE @,
            !.processed = fit_clothing(no_bg, bg_source, reset.vof, reset.hof,
                                       reset.scale, reset.is_horizontal,
                                       reset.use_solid_bg, reset.rotation_angle)]

\* lines 419-442: reset the record, choose the background, composite
JobComposite(j) ==
    /\ jobs[j].pc = "composite"
    /\ LET p == jobs[j].project_index
           at == jobs[j].processed
       IN  /\ projects' = [projects EXCEPT ![p].processed_images[at] =
                   BatchRecord(@, projects[p].clothing_images[jobs[j].idx].path,
                               jobs[j].no_bg)]
           /\ jobs' = [jobs EXCEPT ![j].pc = "loop", ![j].idx = @ + 1,
                                   ![j].no_bg = NoImage,
                                   ![j].handled = Append(@, jobs[j].idx)]
    /\ UNCHANGED <<canvasVars, cacheVars, use_solid_bg, backgrounds,
                   progress_callback, submitted, callerVars, pureVars>>

\* lines 446-449: the final progress call and the return
JobComplete(j) ==
    /\ jobs[j].pc = "complete"
    /\ IF progress_callback # None
       THEN \E outcome \in CallbackOutcomes :
                IF outcome = "raises"
                THEN /\ jobs' = [jobs EXCEPT ![j].pc = "raised"]
                     /\ UNCHANGED events
                ELSE /\ jobs' = [jobs EXCEPT ![j].pc = "done",
                                    ![j].result = [success |-> TRUE, errors |-> <<>>]]
                     /\ events' = [events EXCEPT ![j] =
                            Append(@, CompleteEvent(progress_callback,
                                                    jobs[j].total_images))]
       ELSE /\ jobs' = [jobs EXCEPT ![j].pc = "done",
                               ![j].result = [success |-> TRUE, errors |-> <<>>]]
            /\ UNCHANGED events
    /\ UNCHANGED <<canvasVars, cacheVars, projects, use_solid_bg, backgrounds,
                   progress_callback, submitted, cancel_requested, last, ops, pureVars>>

\* The Cancel button of the progress popup of a running job.
CancelProcessing(callback) ==
    /\ ~cancel_requested[callback]
    /\ \E j \in JobIds : jobs[j].pc \notin {"idle", "done", "raised"}
                         /\ jobs[j].submitted_with = callback
    /\ cancel_requested' = [cancel_requested EXCEPT ![callback] = TRUE]
    /\ UNCHANGED <<canvasVars, cacheVars, backendVars, events, last, ops, pureVars>>

(***************************************************************************)
(* Specification SpecBatch: batch jobs over two projects                   *)
(***************************************************************************)
BatchBackgrounds == {<<>>, <<"bg_red.png", "bg_cyan.png">>}

BatchProjects ==
    <<ProjectData("A", <<ClothingImage("a1.jpg", Photo(Red)),
                         ClothingImage("a2.jpg", Photo(Cyan))>>),
      ProjectData("B", <<ClothingImage("b1.jpg", Photo(Blue))>>)>>

\* Every call of ui_process_current_project_images builds its own closure.
CallbackOf == [j \in JobIds |-> IF j = "job1" THEN "cb1" ELSE "cb2"]

BatchInit ==
    /\ ImageProcessorInit
    /\ ConfigInit
    /\ projects = BatchProjects
    /\ use_solid_bg \in BOOLEAN
    /\ backgrounds \in BatchBackgrounds
    /\ progress_callback = None
    /\ jobs = [j \in JobIds |-> IdleJob]
    /\ submitted = 0
    /\ cancel_requested = [c \in CallbackIds |-> FALSE]
    /\ events = [j \in JobIds |-> <<>>]
    /\ last = [op |-> "none"]
    /\ ops = 0
    /\ NoCall

BatchNext ==
    \/ \E j \in JobIds, project_index \in 1..3 :
           \E callback \in {CallbackOf[j], None} : Submit(j, project_index, callback)
    \/ \E j \in JobIds : JobStart(j)
    \/ \E j \in JobIds : JobProgress(j)
    \/ \E j \in JobIds : JobEnsure(j)
    \/ \E j \in JobIds : JobAppend(j)
    \/ \E j \in JobIds : JobRemoveBackground(j)
    \/ \E j \in JobIds : JobComposite(j)
    \/ \E j \in JobIds : JobComplete(j)
    \/ \E callback \in CallbackIds : CancelProcessing(callback)

SpecBatch == BatchInit /\ [][BatchNext]_vars

Running(j) == jobs[j].pc \notin {"idle", "start"}

\* The batch job was told to stop by the progress call for image c.
StopSignalled(j, c) ==
    \E k \in 1..Len(events[j]) :
        /\ events[j][k].message = "image"
        /\ events[j][k].current = c
        /\ ~events[j][k].returned

\* C1: once a progress callback of a batch job has returned False, the job
\* does no remove/composite work on the images that remain, and none of them
\* is among the images the job has handled.
C1_StopsAfterCancel ==
    \A j \in JobIds : Running(j) =>
        \A c \in 1..jobs[j].total_images : StopSignalled(j, c) =>
            /\ jobs[j].pc = "composite" => jobs[j].idx <= c
            /\ \A k \in 1..Len(jobs[j].handled) : jobs[j].handled[k] <= c

\* C4: with the solid background off and background files loaded, all images
\* one batch job has composited for a project carry the same background path.
C4_OneBackgroundPerProject ==
    \A j \in JobIds : Running(j) /\ jobs[j].pc = "done" =>
        LET recs == projects[jobs[j].project_index].processed_images
        IN  \A a, b \in 1..Len(jobs[j].handled) :
                LET ra == recs[jobs[j].handled[a]]
                    rb == recs[jobs[j].handled[b]]
                IN  (~ra.use_solid_bg /\ ~rb.use_solid_bg /\ backgrounds # <<>>)
                        => ra.bg_path = rb.bg_path

Currents(ev) == [k \in 1..Len(ev) |-> ev[k].current]
StrictlyIncreasing(q) == \A k \in 2..Len(q) : q[k - 1] < q[k]
NonDecreasing(q) == \A k \in 2..Len(q) : q[k - 1] <= q[k]
ImageEvents(ev) == SelectSeq(ev, LAMBDA e : e.message = "image")

\* C8 as written: within one job the current values of its progress calls
\* are strictly increasing, images are handled in list order, and a
\* 'complete' call is the last one and has current == total.
C8_StrictlyIncreasing ==
    \A j \in JobIds :
        /\ StrictlyIncreasing(Currents(events[j]))
        /\ Running(j) => StrictlyIncreasing(jobs[j].handled)
        /\ \A k \in 1..Len(events[j]) : events[j][k].message = "complete" =>
               k = Len(events[j]) /\ events[j][k].current = events[j][k].total

\* C8: within one job images are handled in list order; the per-image
\* progress calls carry the position of the image and are strictly
\* increasing; a 'complete' call is the last one, has current == total and
\* repeats the current of the last image, so the whole sequence is
\* non-decreasing; a job that ends with a callback installed makes that call.
C8_ProgressOrder ==
    /\ [](\A j \in JobIds :
            /\ StrictlyIncreasing(Currents(ImageEvents(events[j])))
            /\ NonDecreasing(Currents(events[j]))
            /\ Running(j) => StrictlyIncreasing(jobs[j].handled)
            /\ \A k \in 1..Len(events[j]) :
                  /\ events[j][k].total = jobs[j].total_images
                  /\ events[j][k].message = "complete" =>
                        k = Len(events[j]) /\ events[j][k].current = events[j][k].total)
    /\ [][\A j \in JobIds :
            /\ (jobs[j].pc = "loop" /\ jobs'[j].pc = "ensure" /\ progress_callback # None)
                   => /\ Len(events'[j]) = Len(events[j]) + 1
                      /\ events'[j][Len(events'[j])].message = "image"
                      /\ events'[j][Len(events'[j])].current = jobs[j].idx
            /\ (jobs[j].pc = "complete" /\ jobs'[j].pc = "done" /\ progress_callback # None)
                   => /\ Len(events'[j]) = Len(events[j]) + 1
                      /\ events'[j][Len(events'[j])].message = "complete"]_vars

\* A job over two images has finished with all three of its progress calls.
C8_Witness ==
    \E j \in JobIds :
        /\ jobs[j].pc = "done"
        /\ Len(events[j]) = 3
        /\ Currents(events[j]) = <<1, 2, 2>>
        /\ events[j][3].message = "complete"
        /\ jobs[j].handled = <<1, 2>>

\* C11: no exception escapes a batch job; a job that has ended on a project
\* with images has returned (True, errors) after visiting every image.
C11_NoExceptionEscapes ==
    \A j \in JobIds : Running(j) =>
        /\ jobs[j].pc # "raised"
        /\ (jobs[j].pc = "done" /\ jobs[j].total_images > 0) =>
               /\ jobs[j].result.success
               /\ jobs[j].idx = jobs[j].total_images + 1

Ended(j) == jobs[j].pc \in {"done", "raised"}

\* The image at position i of project p has a record holding both a cut-out
\* and a composite.
Ready(p, i) ==
    /\ i <= Len(projects[p].processed_images)
    /\ projects[p].processed_images[i].no_bg # NoImage
    /\ projects[p].processed_images[i].processed # NoImage

\* C12: when a batch job that was not cancelled has ended on a project with
\* n >= 1 images, every image of the project has a record with non-null
\* no_bg and non-null processed.
C12_EveryImageReady ==
    \A j \in JobIds :
        (/\ Running(j) /\ Ended(j) /\ jobs[j].total_images >= 1
         /\ (jobs[j].submitted_with # None => ~cancel_requested[jobs[j].submitted_with]))
        => \A i \in 1..Len(projects[jobs[j].project_index].clothing_images) :
               Ready(jobs[j].project_index, i)

(***************************************************************************)
(* The cache of compute_dominant_color                                     *)
(***************************************************************************)
Returned(t) == cdc[t].pc = "idle" /\ cdc[t].result # <<>>
KeyOf(t) == CacheKey(cdc[t].image, cdc[t].ignore_transparent)
CacheKeys == {_dominant_color_cache[i].key : i \in 1..Len(_dominant_color_cache)}

\* The two calls were made with the same flag on images of the same mode,
\* size and pixels (the same object or two objects).
PixelIdentical(t1, t2) ==
    /\ cdc[t1].image.px = cdc[t2].image.px
    /\ cdc[t1].image.mode = cdc[t2].image.mode
    /\ cdc[t1].image.w = cdc[t2].image.w /\ cdc[t1].image.h = cdc[t2].image.h
    /\ cdc[t1].ignore_transparent = cdc[t2].ignore_transparent

\* C13: calls of compute_dominant_color with the same flag on pixel-identical
\* images of the same size, the same object or distinct objects, return the
\* identical colour; their key is in the cache at most once, and a step adds
\* at most one entry, for a key that was not there.
C13_IdempotentCaching ==
    /\ [](/\ \A t1, t2 \in Workers :
                (Returned(t1) /\ Returned(t2) /\ PixelIdentical(t1, t2))
                    => cdc[t1].result = cdc[t2].result
          /\ Cardinality(CacheKeys) = Len(_dominant_color_cache))
    /\ [][/\ Len(_dominant_color_cache') <= Len(_dominant_color_cache) + 1
          /\ Len(_dominant_color_cache') = Len(_dominant_color_cache) + 1
                => Cardinality(CacheKeys') = Cardinality(CacheKeys) + 1]_vars

\* C23: a call of compute_dominant_color returns the integer mean, channel
\* by channel, of the qualifying pixels of its image (alpha above 128 with
\* ignore_transparent, all of them without), gray (128, 128, 128) when none
\* qualifies, and gray when a step of it raises.
C23_MeanOrGray ==
    \A t \in Workers : Returned(t) =>
        cdc[t].result[1] =
            IF CanLoad(cdc[t].image)
            THEN DominantColor(cdc[t].image, cdc[t].ignore_transparent)
            ELSE <<128, 128, 128>>

\* C14: whenever the cache lock is free the cache holds at most 200 entries;
\* between an insertion and the trim that follows it the inserting thread
\* holds the lock.
C14_CacheBound ==
    /\ _cache_lock = None => Len(_dominant_color_cache) <= CACHE_LIMIT
    /\ \A t \in Workers : cdc[t].pc \in {"insert", "trim"} => _cache_lock = t

\* An insertion has exceeded the bound and the trim has restored it.
C14_Witness ==
    /\ _cache_lock = None
    /\ Len(_dominant_color_cache) = CACHE_LIMIT + 1 - CACHE_TRIM
    /\ \E t \in Workers : Returned(t) /\ KeyOf(t) \in CacheKeys

(***************************************************************************)
(* Background selection with nothing to select                             *)
(***************************************************************************)
NoneOpens(background_paths) ==
    \A k \in 1..Len(background_paths) : ~CanOpen(background_paths[k])

\* C15: find_best_background and find_best_background_for_project return
\* None when the candidate list is empty or no candidate can be opened, and
\* find_best_background_for_project returns None for an empty subject list.
C15_NothingToSelect ==
    call.op = "select" =>
        /\ (ret.single # <<>> /\ NoneOpens(call.background_paths))
               => ret.single[1] = None
        /\ (ret.project # <<>> /\ NoneOpens(call.background_paths))
               => ret.project[1] = None
        /\ (ret.project # <<>> /\ call.no_bg_images = <<>>)
               => ret.project[1] = None

\* Both selections have run on a list whose only candidates cannot be opened.
C15_Witness ==
    /\ BothSelected
    /\ call.background_paths = <<MissingPath, MissingPath>>
    /\ ret.single[1] = None
    /\ ret.project[1] = None

(***************************************************************************)
(* Specification SpecInterleave: single-image calls on project A while a   *)
(* batch job runs on project B                                             *)
(***************************************************************************)
InterleaveProjects ==
    <<ProjectData("A", <<ClothingImage("a1.jpg", Photo(Blue))>>),
      ProjectData("B", <<ClothingImage("b1.jpg", Photo(Blue)),
                         ClothingImage("b2.jpg", Photo(Red))>>)>>

InterleaveBackgrounds ==
    {<<>>, <<MissingPath>>, <<"bg_blue.png">>, <<"bg_red.png", "bg_cyan.png">>}

InterleaveAdjustments ==
    {[bg_path |-> path] : path \in {"(Auto)", MissingPath, "bg_red.png"}}
    \cup {[use_solid_bg |-> b] : b \in BOOLEAN}
    \cup {[scale |-> 150]}

InterleaveInit ==
    /\ ImageProcessorInit
    /\ ConfigInit
    /\ projects = InterleaveProjects
    /\ use_solid_bg \in BOOLEAN
    /\ backgrounds \in InterleaveBackgrounds
    /\ progress_callback = None
    /\ jobs = [j \in JobIds |-> IdleJob]
    /\ submitted = 0
    /\ cancel_requested = [c \in CallbackIds |-> FALSE]
    /\ events = [j \in JobIds |-> <<>>]
    /\ last = [op |-> "none"]
    /\ ops = 0
    /\ NoCall

InterleaveNext ==
    \/ \E skip_bg_removal \in BOOLEAN, user_bg_path \in {None, MissingPath} :
           ProcessSingleImage(1, 1, skip_bg_removal, user_bg_path)
    \/ \E adjustments \in InterleaveAdjustments : ApplyImageAdjustments(1, 1, adjustments)
    \/ \E callback \in {CallbackOf["job1"], None} : Submit("job1", 2, callback)
    \/ JobStart("job1")
    \/ JobProgress("job1")
    \/ JobEnsure("job1")
    \/ JobAppend("job1")
    \/ JobRemoveBackground("job1")
    \/ JobComposite("job1")
    \/ JobComplete("job1")

SpecInterleave == InterleaveInit /\ [][InterleaveNext]_vars

\* The record's composite is drawn on the solid fill of the colour
\* complementary to its subject.
OnSolidFill(processed) ==
    /\ processed.processed.kind = "composite"
    /\ processed.processed.background = NoImage
    /\ processed.processed.fill =
           _complementary_color(DominantColor(processed.processed.subject, TRUE))

\* C16: in process_single_image, the batch worker and
\* apply_image_adjustments a background that was not found (the selection
\* returned None) or cannot be opened gives a composite on the solid
\* complementary fill; processed is set and the operation reports success
\* with no error entry.
C16_MissingBackgroundIsSolid ==
    /\ \A r \in Records : HasRecord(r[1], r[2]) =>
           LET processed == RecordAt(r[1], r[2])
           IN  (/\ processed.processed # NoImage
                /\ processed.bg_path = None \/ ~CanOpen(processed.bg_path))
                   => OnSolidFill(processed)
    /\ (/\ last.op \in {"process_single_image", "apply_image_adjustments"}
        /\ HasRecord(last.project_index, last.image_index))
           => /\ last.ok
              /\ RecordAt(last.project_index, last.image_index).processed # NoImage
    /\ \A j \in JobIds : jobs[j].pc = "done" => jobs[j].result.errors = <<>>

\* With the solid mode off, the batch job has composited an image for which
\* no background could be opened, and a single-image call has composited
\* one whose chosen background is missing.
C16_Witness ==
    /\ backgrounds = <<MissingPath>>
    /\ jobs["job1"].pc = "done"
    /\ HasRecord(2, 1) /\ HasRecord(1, 1)
    /\ ~RecordAt(2, 1).use_solid_bg /\ RecordAt(2, 1).bg_path = None
    /\ OnSolidFill(RecordAt(2, 1))
    /\ ~RecordAt(1, 1).use_solid_bg /\ RecordAt(1, 1).bg_path = MissingPath
    /\ OnSolidFill(RecordAt(1, 1))
    /\ last.op = "apply_image_adjustments" /\ last.ok

(***************************************************************************)
(* fit_clothing: size of the result                                        *)
(***************************************************************************)
Fitted == ret # <<>> /\ call.op = "fit_clothing"

\* C17: for every subject, background, vof, hof, scale (0 and the scales
\* that give an empty scaled subject included) and rotation, fit_clothing
\* returns an image of exactly the canvas width and height of the selected
\* orientation: the composite, or the flat placeholder when the composition
\* failed.
C17_CanvasSizedResult ==
    Fitted =>
        /\ ret[1].w = (IF call.is_horizontal THEN canvas_width_h ELSE canvas_width_v)
        /\ ret[1].h = (IF call.is_horizontal THEN canvas_height_h ELSE canvas_height_v)
        /\ ret[1].mode = "RGBA"
        /\ \/ ret[1].kind = "composite" /\ ret[1].new_w >= 1 /\ ret[1].new_h >= 1
           \/ ret[1].kind = "placeholder" /\ ret[1].fill = <<200, 200, 200>>
        /\ call.scale = 0 => ret[1].kind = "placeholder"

\* A subject whose scaled height is empty at a non-zero scale gave the
\* placeholder, of the size of the horizontal canvas.
C17_Witness ==
    /\ Fitted
    /\ call.scale = 50 /\ call.clothing_image.w = 3000 /\ call.is_horizontal
    /\ ret[1].kind = "placeholder"
    /\ ret[1].w = DEFAULT_CANVAS_WIDTH_H /\ ret[1].h = DEFAULT_CANVAS_HEIGHT_H

\* The subject has content above the threshold, with fully transparent
\* padding around it.
Padded(image) ==
    /\ Len(image.px) = 2
    /\ image.pad > 0
    /\ image.px[1][4] > ALPHA_THRESHOLD
    /\ image.px[2][4] = 0

\* The same subject without its padding.
Content(image) ==
    Image(image.w - 2 * image.pad, image.h - 2 * image.pad, image.mode,
          <<image.px[1]>>, 0)

FullyTransparent(image) ==
    image # NoImage /\ \A k \in 1..Len(image.px) : image.px[k][4] = 0

\* An opaque image of the same bounds.
Filled(image) == Image(image.w, image.h, image.mode, <<Opaque(Red)>>, 0)

\* The call under study renders its subject at the size at which the same
\* call renders other.
RendersLike(other) ==
    LET alone == fit_clothing(other, call.background_image, call.vof, call.hof,
                              call.scale, call.is_horizontal, call.use_solid_bg,
                              call.rotation_angle)
    IN  /\ ret[1].kind = alone.kind
        /\ ret[1].new_w = alone.new_w
        /\ ret[1].new_h = alone.new_h

\* C20: fit_clothing renders a subject whose content (alpha above 10) is
\* surrounded by fully transparent padding at the size at which it renders
\* the content alone, whatever the amount of padding; a fully transparent
\* image is rendered at the size its full bounds give.
C20_AlphaTrimmedBox ==
    Fitted =>
        /\ Padded(call.clothing_image) => RendersLike(Content(call.clothing_image))
        /\ FullyTransparent(call.clothing_image) =>
               RendersLike(Filled(call.clothing_image))

\* A 400x200 subject inside 45 pixels of padding fills the width of the
\* vertical canvas like the bare subject.
C20_Witness ==
    /\ Fitted
    /\ Padded(call.clothing_image)
    /\ call.clothing_image.w = 490 /\ call.clothing_image.pad = 45
    /\ call.scale = 100 /\ ~call.is_horizontal /\ call.rotation_angle = 0
    /\ ret[1].kind = "composite"
    /\ ret[1].new_w = 600 /\ ret[1].new_h = 300

\* The end-to-end scenario: the opaque 500x500 red square on the vertical
\* canvas, centred, at full scale, on the solid fill, not rotated.
RedSquareCall ==
    /\ Fitted
    /\ call.clothing_image = Image(500, 500, "RGBA", <<Opaque(Red)>>, 0)
    /\ call.vof = 0 /\ call.hof = 0
    /\ call.scale = 100
    /\ ~call.is_horizontal
    /\ call.use_solid_bg
    /\ call.rotation_angle = 0

\* C21: for the opaque 500x500 red subject with vof = 0, hof = 0, scale 1.0,
\* vertical, solid background, no rotation, fit_clothing returns the
\* 600x800 canvas with the subject scaled to 600x600 and pasted at x = 0,
\* y = 100, the rest filled with (0, 255, 255), which is not red.
C21_EndToEndPlacement ==
    RedSquareCall =>
        /\ ret[1].kind = "composite"
        /\ ret[1].w = 600 /\ ret[1].h = 800
        /\ ret[1].new_w = 600 /\ ret[1].new_h = 600
        /\ ret[1].x = 0 /\ ret[1].y = 100
        /\ ret[1].background = NoImage
        /\ ret[1].fill = <<0, 255, 255>>
        /\ ret[1].fill # Red

C21_Witness ==
    /\ RedSquareCall
    /\ canvas_width_v = 600 /\ canvas_height_v = 800
    /\ ret[1].subject = call.clothing_image
    /\ ret[1].y = 100

\* The records a batch job over the project leaves when nothing else runs:
\* one per image, in order, each made from the default record.
BatchAlone(p) ==
    /\ Len(projects[p].processed_images) = Len(projects[p].clothing_images)
    /\ \A i \in 1..Len(projects[p].clothing_images) :
           LET image == projects[p].clothing_images[i]
           IN  \E segmentation_raises \in SegmentationOutcomes :
                   RecordAt(p, i) =
                       BatchRecord(default_processed_entry(image.path, use_solid_bg),
                                   image.path,
                                   remove_background(image.image, REMOVE_MAX_SIZE,
                                                     segmentation_raises))

\* The record of image 1 of the project is one a single-image call makes of
\* that image: its path, a subject cut from its photo, a composite of it.
SingleAlone(p) ==
    LET image == projects[p].clothing_images[1]
        processed == RecordAt(p, 1)
    IN  /\ Len(projects[p].processed_images) = 1
        /\ processed.path = image.path
        /\ processed.no_bg \in
               {image.image} \cup {remove_background(image.image, REMOVE_MAX_SIZE, r) :
                                      r \in SegmentationOutcomes}
        /\ processed.processed # NoImage
        /\ processed.processed.subject = processed.no_bg

CanvasChoices ==
    {<<600, 800, 800, 600>>, <<900, 1200, 1200, 900>>, <<1000, 1000, 1000, 700>>}

\* The updates save_main_config receives: the project-wide setting alone,
\* the horizontal canvas alone, or the four canvas entries.
CanvasConfigs ==
    {[use_solid_bg |-> b] : b \in BOOLEAN}
    \cup {[canvas_width_h |-> 1000, canvas_height_h |-> 700]}
    \cup {[canvas_width_v |-> c[1], canvas_height_v |-> c[2],
           canvas_width_h |-> c[3], canvas_height_h |-> c[4]] : c \in CanvasChoices}

CanvasSubjects ==
    {Image(500, 500, "RGBA", <<Opaque(Red)>>, 0),
     Image(400, 200, "RGBA", <<Opaque(Red)>>, 0),
     Image(13, 17, "RGBA", <<Opaque(Red)>>, 0),
     Image(3000, 1, "RGBA", <<Opaque(Red)>>, 0),
     Image(20, 20, "RGBA", <<Opaque(Red), Clear(White)>>, 5)}

CanvasScales == {50, 85, 150}

CanvasInit ==
    /\ ImageProcessorInit
    /\ ConfigInit
    /\ BackendIdle
    /\ NoCall

\* One fit_clothing call with the canvas as it is now.
CanvasFit(subject, scale, is_horizontal, rotation_angle) ==
    /\ call' = [op |-> "fit_clothing", clothing_image |-> subject,
                background_image |-> NoImage, vof |-> 0, hof |-> 0,
                scale |-> scale, is_horizontal |-> is_horizontal,
                use_solid_bg |-> use_solid_bg, rotation_angle |-> rotation_angle]
    /\ ret' = <<fit_clothing(subject, NoImage, 0, 0, scale, is_horizontal,
                             use_solid_bg, rotation_angle)>>
    /\ UNCHANGED <<canvasVars, cacheVars, backendVars, callerVars>>

CanvasNext ==
    \/ \E c \in CanvasChoices : UpdateCanvasSettings(c[1], c[2], c[3], c[4])
    \/ \E updated_config \in CanvasConfigs : save_main_config(updated_config)
    \/ \E subject \in CanvasSubjects, scale \in CanvasScales,
          is_horizontal \in BOOLEAN, rotation_angle \in FitRotations :
          CanvasFit(subject, scale, is_horizontal, rotation_angle)

SpecCanvas == CanvasInit /\ [][CanvasNext]_vars

\* The canvas the latest update_canvas_settings call asked for.
LatestCanvas ==
    IF last.op \in {"update_canvas_settings", "save_main_config"}
    THEN last.canvas
    ELSE <<DEFAULT_CANVAS_WIDTH_V, DEFAULT_CANVAS_HEIGHT_V,
           DEFAULT_CANVAS_WIDTH_H, DEFAULT_CANVAS_HEIGHT_H>>

FitStep == call'.op = "fit_clothing" /\ <<call, ret>>' # <<call, ret>>

\* C18: every fit_clothing call returns an image whose width and height are
\* those of the latest update_canvas_settings call (made directly or through
\* save_main_config) for the orientation of the call, never earlier ones.
C18_LatestCanvasSize ==
    [][FitStep =>
          /\ ret' # <<>>
          /\ ret'[1].w = (IF call'.is_horizontal THEN LatestCanvas[3]
                          ELSE LatestCanvas[1])
          /\ ret'[1].h = (IF call'.is_horizontal THEN LatestCanvas[4]
                          ELSE LatestCanvas[2])]_vars

\* A horizontal composite of the size a direct update set, after the
\* default size was in force.
C18_Witness ==
    /\ last.op = "update_canvas_settings"
    /\ last.canvas = <<900, 1200, 1200, 900>>
    /\ canvas_width_h = 1200
    /\ call.op = "fit_clothing"
    /\ call.is_horizontal
    /\ ret # <<>>
    /\ ret[1].kind = "composite"
    /\ ret[1].w = 1200
    /\ ret[1].h = 900

\* C26: with two batch jobs running on one project at the same time, the
\* project never has more processed records than images: at most one
\* record is created per image.
C26_NoDuplicateRecords ==
    \A p \in 1..Len(projects) :
        Len(projects[p].processed_images) <= Len(projects[p].clothing_images)

\* C27: every progress call a job makes, the final one included, goes to
\* the callback its own process_project_images_async call was given, and a
\* job that was given a callback makes each of its progress calls, also
\* when another job is submitted before it has finished.
C27_OwnCallback ==
    /\ [](\A j \in JobIds : \A k \in 1..Len(events[j]) :
             events[j][k].callback = jobs[j].submitted_with)
    /\ [][\A j \in JobIds :
             (/\ jobs[j].pc \in {"loop", "complete"}
              /\ jobs'[j].pc \in {"ensure", "done"}
              /\ jobs[j].submitted_with # None)
                 => Len(events'[j]) = Len(events[j]) + 1]_vars

(***************************************************************************)
(* Specification SpecProject: one project's images are processed one by    *)
(* one, adjusted, removed and batch-processed, one operation at a time     *)
(***************************************************************************)
\* list.pop(index)
RemoveAt(seq, index) ==
    SubSeq(seq, 1, index - 1) \o SubSeq(seq, index + 1, Len(seq))

\* ui_remove_image(image_index) on the project
RemoveImage(project_index, image_index) ==
    /\ ValidProject(project_index)
    /\ image_index <= Len(projects[project_index].clothing_images)
    /\ projects' = [projects EXCEPT
           ![project_index].clothing_images = RemoveAt(@, image_index),
           ![project_index].processed_images =
               IF image_index <= Len(@) THEN RemoveAt(@, image_index) ELSE @]
    /\ last' = [op |-> "ui_remove_image", project_index |-> project_index,
                image_index |-> image_index, ok |-> TRUE]
    /\ UNCHANGED <<canvasVars, cacheVars, use_solid_bg, backgrounds, progress_callback,
                   jobs, submitted, cancel_requested, events, ops, pureVars>>

\* No batch job is in flight: the progress popup of a job is modal, the
\* other operations of the window wait for it.
Quiet == \A j \in JobIds : jobs[j].pc \in {"idle", "done"}

ProjectImages ==
    <<ProjectData("A", <<ClothingImage("a1.jpg", Photo(Red)),
                         ClothingImage("a2.jpg", Photo(Cyan))>>)>>

ProjectAdjustments ==
    {[use_solid_bg |-> b] : b \in BOOLEAN} \cup {[scale |-> 150]}

ProjectInit ==
    /\ ImageProcessorInit
    /\ ConfigInit
    /\ projects = ProjectImages
    /\ use_solid_bg \in BOOLEAN
    /\ backgrounds \in BatchBackgrounds
    /\ progress_callback = None
    /\ jobs = [j \in JobIds |-> IdleJob]
    /\ submitted = 0
    /\ cancel_requested = [c \in CallbackIds |-> FALSE]
    /\ events = [j \in JobIds |-> <<>>]
    /\ last = [op |-> "none"]
    /\ ops = 0
    /\ NoCall

ProjectNext ==
    \/ \E image_index \in 1..2, skip_bg_removal \in BOOLEAN :
           Quiet /\ ProcessSingleImage(1, image_index, skip_bg_removal, None)
    \/ \E image_index \in 1..2, adjustments \in ProjectAdjustments :
           Quiet /\ ApplyImageAdjustments(1, image_index, adjustments)
    \/ \E image_index \in 1..2 : Quiet /\ RemoveImage(1, image_index)
    \/ \E j \in JobIds : Quiet /\ Submit(j, 1, None)
    \/ \E j \in JobIds :
           \/ JobStart(j)
           \/ JobProgress(j)
           \/ JobEnsure(j)
           \/ JobAppend(j)
           \/ JobRemoveBackground(j)
           \/ JobComposite(j)
           \/ JobComplete(j)

SpecProject == ProjectInit /\ [][ProjectNext]_vars

\* The fields of a record that the user sets.
UserFields == {"vof", "hof", "scale", "rotation_angle", "user_bg_path", "use_solid_bg"}

\* C24: a record whose use_solid_bg was set through apply_image_adjustments
\* to differ from the project-wide setting is marked individual_override,
\* and a step of a batch job leaves the composite, vof, hof, scale,
\* rotation_angle, user_bg_path and use_solid_bg of an already processed
\* record as they are.
C24_OverrideSurvivesBatch ==
    /\ [](\A i \in 1..2 :
             (/\ HasRecord(1, i)
              /\ RecordAt(1, i).processed # NoImage
              /\ RecordAt(1, i).use_solid_bg # use_solid_bg)
                 => Get(RecordAt(1, i), "individual_override", FALSE))
    /\ [][\A i \in 1..2 :
             (/\ jobs' # jobs
              /\ HasRecord(1, i)
              /\ RecordAt(1, i).processed # NoImage)
                 => /\ projects'[1].processed_images[i].processed = RecordAt(1, i).processed
                    /\ \A k \in UserFields :
                           projects'[1].processed_images[i][k] = RecordAt(1, i)[k]]_vars

\* C25: in every project every processed record sits at the index of the
\* image it was made from: there are no more records than images, and
\* processed_images[i].path = clothing_images[i].path.
C25_RecordsAligned ==
    \A p \in 1..Len(projects) :
        /\ Len(projects[p].processed_images) <= Len(projects[p].clothing_images)
        /\ \A i \in 1..Len(projects[p].processed_images) :
               i <= Len(projects[p].clothing_images)
                   => projects[p].processed_images[i].path
                          = projects[p].clothing_images[i].path

\* Every image of the project has a composited record.
AllProcessed(p) ==
    /\ projects[p].clothing_images # <<>>
    /\ Len(projects[p].processed_images) = Len(projects[p].clothing_images)
    /\ \A i \in 1..Len(projects[p].processed_images) : RecordAt(p, i).processed # NoImage

\* C29: a step of a batch job on a project whose images are all processed,
\* the project-wide setting being what it was, removes no background and
\* leaves every processed record unchanged.
C29_RerunChangesNothing ==
    [][(AllProcessed(1) /\ jobs' # jobs) =>
           /\ projects' = projects
           /\ \A j \in JobIds : jobs'[j].pc # "composite"]_vars

====
